---- MODULE Spec2Model ----
(***************************************************************************)
(* RestyAI sleep pattern analyzer: the upload handler of main.py and the   *)
(* analysis core it calls (utils/data_processor.py, utils/analyzer.py,     *)
(* utils/disorder_detector.py).                                            *)
(*                                                                         *)
(* Units.  A timestamp is a whole number of minutes since 2023-01-01 00:00 *)
(* (a Sunday).  Quantities the code holds in hours (duration, the rolling  *)
(* duration average) are held in minutes, i.e. in sixtieths of an hour, so *)
(* "duration < 6.0" reads duration < 6 * MinutesPerHour.  risk_level and   *)
(* confidence are held in tenths (0.4 is 4, the cap 1.0 is 10): the sums   *)
(* the code forms (0.4+0.3, 0.3+0.3, 0.5+0.3, 0.4+0.4) are exact in binary *)
(* floating point, so tenths lose nothing.  A mean is the pair             *)
(* [sum, nobs]; nobs = 0 is pandas' NaN.                                   *)
(***************************************************************************)
EXTENDS Integers, Sequences, FiniteSets, TLC

VARIABLES pc, uploaded_file, df, processed_df, metrics, stats,
          detector_risks, disorder_analysis, ui

vars == <<pc, uploaded_file, df, processed_df, metrics, stats,
          detector_risks, disorder_analysis, ui>>

(***************************************************************************)
(* Bounds of the model.                                                    *)
(***************************************************************************)
\* rows of an uploaded file in the upload handler
MaxUploadRows == 3
\* nights of a feature table of three kinds of night handed to the detector
MaxNights == 7
\* nights of a feature table of two kinds of night handed to the detector
MaxLongNights == 10
\* records of a table of six kinds of row handed to the processor and the
\* statistics
MaxRecords == 4
\* records of a table of two kinds of row handed to them
MaxLongRecords == 8

MinutesPerHour == 60
MinutesPerDay == 1440
\* 1.0 in tenths
Tenths == 10

None == [none |-> TRUE]

Min(a, b) == IF a <= b THEN a ELSE b
Max(a, b) == IF a >= b THEN a ELSE b

RECURSIVE SumSeq(_)
SumSeq(s) == IF s = <<>> THEN 0 ELSE Head(s) + SumSeq(Tail(s))

Column(rows, c) == [i \in DOMAIN rows |-> rows[i][c]]

(***************************************************************************)
(* Cells of a DataFrame.  A text cell read from the CSV is                 *)
(* "YYYY-MM-DD HH:MM:SS", held as its fields <<day, hour, minute>> (day    *)
(* counted from 2023-01-01); text that is no timestamp has no fields.  A   *)
(* converted cell is a datetime64 holding the minutes since the epoch.     *)
(***************************************************************************)
Text(d, h, m) == [type |-> "str", v |-> <<d, h, m>>]
Garbage == [type |-> "str", v |-> <<>>]
Timestamp(t) == [type |-> "datetime64", v |-> <<t>>]

Parsable(cell) == cell.type = "datetime64" \/ Len(cell.v) = 3

\* pd.to_datetime on one value
to_datetime(cell) ==
    IF cell.type = "datetime64" THEN cell
    ELSE Timestamp((cell.v[1] * 24 + cell.v[2]) * MinutesPerHour + cell.v[3])

\* Series.dt.hour
hour(cell) == (cell.v[1] \div MinutesPerHour) % 24

\* Series.dt.normalize()
normalize(cell) == Timestamp(cell.v[1] - (cell.v[1] % MinutesPerDay))

DayNames == <<"Monday", "Tuesday", "Wednesday", "Thursday", "Friday",
              "Saturday", "Sunday">>

\* Series.dt.day_name(); day 0 (2023-01-01) is a Sunday
day_name(cell) == DayNames[(((cell.v[1] \div MinutesPerDay) + 6) % 7) + 1]

(***************************************************************************)
(* utils/data_processor.py                                                 *)
(***************************************************************************)
required_columns == {"date", "sleep_start", "sleep_end", "quality"}

ColumnParsable(d, c) == \A i \in DOMAIN d.rows : Parsable(d.rows[i][c])

\* df[c] = pd.to_datetime(df[c]): assigns the converted column into d
ConvertColumn(d, c) ==
    [d EXCEPT !.rows = [i \in DOMAIN d.rows |->
                          [d.rows[i] EXCEPT ![c] = to_datetime(d.rows[i][c])]]]

QualityMin == 0
QualityMax == 100

\* df['quality'].between(0, 100).all()
QualityInRange(d) ==
    \A i \in DOMAIN d.rows :
        d.rows[i].quality >= QualityMin /\ d.rows[i].quality <= QualityMax

Raise0(d, e) == [df |-> d, raised |-> TRUE, error |-> e]

\* validate_data without the check of the quality scores
validate_data_without_range_check(d) ==
    IF ~(required_columns \subseteq d.columns)
    THEN Raise0(d, "Missing required columns")
    ELSE IF \E c \in {"date", "sleep_start", "sleep_end"} :
                \E i \in DOMAIN d.rows :
                    ~(d.rows[i][c].type = "datetime64" \/ Len(d.rows[i][c].v) = 3)
    THEN Raise0(d, "Unknown datetime string format")
    ELSE [df |-> [d EXCEPT !.rows =
                    [i \in DOMAIN d.rows |->
                        [d.rows[i] EXCEPT !.date = to_datetime(@),
                                          !.sleep_start = to_datetime(@),
                                          !.sleep_end = to_datetime(@)]]],
          raised |-> FALSE, error |-> ""]

Raise(d, e) == [df |-> d, raised |-> TRUE, error |-> e]

\* validate_data(df): the outcome and the DataFrame the caller is left with
validate_data(d) ==
    IF ~(required_columns \subseteq d.columns)
    THEN Raise(d, "Missing required columns")
    ELSE IF ~ColumnParsable(d, "date") THEN Raise(d, "Unknown datetime string format")
    ELSE LET d1 == ConvertColumn(d, "date") IN
    IF ~ColumnParsable(d1, "sleep_start")
    THEN Raise(d1, "Unknown datetime string format")
    ELSE LET d2 == ConvertColumn(d1, "sleep_start") IN
    IF ~ColumnParsable(d2, "sleep_end")
    THEN Raise(d2, "Unknown datetime string format")
    ELSE LET d3 == ConvertColumn(d2, "sleep_end") IN
    IF ~QualityInRange(d3)
    THEN Raise(d3, "Sleep quality scores must be between 0 and 100")
    ELSE [df |-> d3, raised |-> FALSE, error |-> ""]

window == 7
min_periods == 1

\* a running sum that lets a value go one row early (a window of w - 1)
RECURSIVE RollSum_leaving_early(_, _, _)
RollSum_leaving_early(xs, i, w) ==
    IF i = 0 THEN 0
    ELSE RollSum_leaving_early(xs, i - 1, w) + xs[i]
         - (IF i >= w THEN xs[i - w + 1] ELSE 0)

\* the running sum pandas keeps for rolling(window=w): add the entering value,
\* remove the one that leaves the window
RECURSIVE RollSum(_, _, _)
RollSum(xs, i, w) ==
    IF i = 0 THEN 0
    ELSE RollSum(xs, i - 1, w) + xs[i] - (IF i > w THEN xs[i - w] ELSE 0)

\* Series.rolling(window=w, min_periods=mp).mean()
rolling_mean(xs, w, mp) ==
    [i \in DOMAIN xs |->
        LET nobs == Min(i, w) IN
        IF nobs >= mp THEN [sum |-> RollSum(xs, i, w), nobs |-> nobs]
        ELSE [sum |-> 0, nobs |-> 0]]

ideal_bedtime_hour == 22

\* process_sleep_data with a negative duration clamped to 0
process_sleep_data_clamped(d) ==
    LET conv == ConvertColumn(ConvertColumn(ConvertColumn(d, "date"),
                                            "sleep_start"), "sleep_end").rows
        duration == [i \in DOMAIN conv |->
                        Max(0, conv[i].sleep_end.v[1] - conv[i].sleep_start.v[1])]
        latency == [i \in DOMAIN conv |->
                        conv[i].sleep_start.v[1]
                        - (normalize(conv[i].date).v[1]
                           + ideal_bedtime_hour * MinutesPerHour)]
        quality == Column(conv, "quality")
        rdur == rolling_mean(duration, window, min_periods)
        rqual == rolling_mean(quality, window, min_periods)
    IN  [i \in DOMAIN conv |->
            [date |-> conv[i].date,
             sleep_start |-> conv[i].sleep_start,
             sleep_end |-> conv[i].sleep_end,
             quality |-> conv[i].quality,
             duration |-> duration[i],
             latency |-> latency[i],
             day_of_week |-> day_name(conv[i].date),
             rolling_avg_duration |-> rdur[i],
             rolling_avg_quality |-> rqual[i]]]

\* process_sleep_data(df): the returned table (the argument is copied first)
process_sleep_data(d) ==
    LET conv == ConvertColumn(ConvertColumn(ConvertColumn(d, "date"),
                                            "sleep_start"), "sleep_end").rows
        duration == [i \in DOMAIN conv |->
                        conv[i].sleep_end.v[1] - conv[i].sleep_start.v[1]]
        latency == [i \in DOMAIN conv |->
                        conv[i].sleep_start.v[1]
                        - (normalize(conv[i].date).v[1]
                           + ideal_bedtime_hour * MinutesPerHour)]
        quality == Column(conv, "quality")
        rdur == rolling_mean(duration, window, min_periods)
        rqual == rolling_mean(quality, window, min_periods)
    IN  [i \in DOMAIN conv |->
            [date |-> conv[i].date,
             sleep_start |-> conv[i].sleep_start,
             sleep_end |-> conv[i].sleep_end,
             quality |-> conv[i].quality,
             duration |-> duration[i],
             latency |-> latency[i],
             day_of_week |-> day_name(conv[i].date),
             rolling_avg_duration |-> rdur[i],
             rolling_avg_quality |-> rqual[i]]]

(***************************************************************************)
(* utils/disorder_detector.py                                              *)
(***************************************************************************)
\* disorder_patterns (hours, score, hours of day); 1.5 is 3/2
short_sleep == 6
low_quality == 70
schedule_inconsistency_num == 3
schedule_inconsistency_den == 2
late_bedtime == 24
late_wake == 9

\* len(df[mask]): the number of rows a boolean mask selects
CountRows(mask) == Cardinality({i \in DOMAIN mask : mask[i]})

\* the share compared with > where the code has >=
AtLeastShare_strict(count, n, tenths) == count * 10 > n * tenths

\* count >= n * (tenths / 10), the code's count >= len(df) * 0.3 (or 0.4).  The
\* float product n * 0.3 (n * 0.4) decides this as the exact fraction does for
\* every n below 2000.
AtLeastShare(count, n, tenths) == count * 10 >= n * tenths

\* N * sum(x^2) - sum(x)^2, the numerator of the sample variance (ddof = 1)
\* whose denominator is N * (N - 1)
VarianceNum(xs) ==
    Len(xs) * SumSeq([i \in DOMAIN xs |-> xs[i] * xs[i]]) - SumSeq(xs) * SumSeq(xs)
VarianceDen(xs) == Len(xs) * (Len(xs) - 1)

\* Series.std() is NaN below two values
StdIsNaN(xs) == Len(xs) < 2

\* Series.std() > num / den; a comparison with NaN is False
StdExceeds(xs, num, den) ==
    /\ ~StdIsNaN(xs)
    /\ den * den * VarianceNum(xs) > num * num * VarianceDen(xs)

\* the value an evidence string quotes for a standard deviation: its variance
StdValue(xs) == <<VarianceNum(xs), VarianceDen(xs)>>

Evidence(text, value) == [text |-> text, value |-> value]

\* a result whose second rule adds its risk and confidence but no evidence string
RiskResult_silent_second_rule(r1, risk1, conf1, ev1, r2, risk2, conf2, ev2) ==
    [risk_level |-> Min((IF r1 THEN risk1 ELSE 0) + (IF r2 THEN risk2 ELSE 0), Tenths),
     confidence |-> (IF r1 THEN conf1 ELSE 0) + (IF r2 THEN conf2 ELSE 0),
     evidence |-> (IF r1 THEN <<ev1>> ELSE <<>>)]

RiskResult(r1, risk1, conf1, ev1, r2, risk2, conf2, ev2) ==
    [risk_level |-> Min((IF r1 THEN risk1 ELSE 0) + (IF r2 THEN risk2 ELSE 0), Tenths),
     confidence |-> (IF r1 THEN conf1 ELSE 0) + (IF r2 THEN conf2 ELSE 0),
     evidence |-> (IF r1 THEN <<ev1>> ELSE <<>>) \o (IF r2 THEN <<ev2>> ELSE <<>>)]

IsShortSleep(r) == r.duration < short_sleep * MinutesPerHour
IsLowQuality(r) == r.quality < low_quality
IsLateBedtime(r) == hour(r.sleep_start) >= late_bedtime
IsLateWake(r) == hour(r.sleep_end) >= late_wake

short_sleep_days(t) == CountRows([i \in DOMAIN t |-> IsShortSleep(t[i])])
low_quality_days(t) == CountRows([i \in DOMAIN t |-> IsLowQuality(t[i])])
late_bedtimes(t) == CountRows([i \in DOMAIN t |-> IsLateBedtime(t[i])])
late_wakes(t) == CountRows([i \in DOMAIN t |-> IsLateWake(t[i])])
sleep_time_hours(t) == [i \in DOMAIN t |-> hour(t[i].sleep_start)]
wake_time_hours(t) == [i \in DOMAIN t |-> hour(t[i].sleep_end)]

\* the conditions of the six rules
ShortSleepRule(t) == AtLeastShare(short_sleep_days(t), Len(t), 3)
LowQualityRule(t) == AtLeastShare(low_quality_days(t), Len(t), 3)
SleepTimeRule(t) ==
    StdExceeds(sleep_time_hours(t), schedule_inconsistency_num, schedule_inconsistency_den)
WakeTimeRule(t) ==
    StdExceeds(wake_time_hours(t), schedule_inconsistency_num, schedule_inconsistency_den)
LateBedtimeRule(t) == AtLeastShare(late_bedtimes(t), Len(t), 4)
LateWakeRule(t) == AtLeastShare(late_wakes(t), Len(t), 4)

detect_insomnia(t) ==
    RiskResult(ShortSleepRule(t), 4, 3,
               Evidence("Short sleep duration detected in nights", <<short_sleep_days(t)>>),
               LowQualityRule(t), 3, 3,
               Evidence("Poor sleep quality reported in nights", <<low_quality_days(t)>>))

\* the rhythm detector with the risk increments added to confidence as well
detect_irregular_rhythm_overconfident(t) ==
    RiskResult(SleepTimeRule(t), 5, 4 + 5,
               Evidence("Highly variable sleep times (std hours)", StdValue(sleep_time_hours(t))),
               WakeTimeRule(t), 3, 3 + 3,
               Evidence("Inconsistent wake times (std hours)", StdValue(wake_time_hours(t))))

detect_irregular_rhythm(t) ==
    RiskResult(SleepTimeRule(t), 5, 4,
               Evidence("Highly variable sleep times (std hours)", StdValue(sleep_time_hours(t))),
               WakeTimeRule(t), 3, 3,
               Evidence("Inconsistent wake times (std hours)", StdValue(wake_time_hours(t))))

detect_delayed_sleep(t) ==
    RiskResult(LateBedtimeRule(t), 4, 3,
               Evidence("Late bedtime pattern detected in nights", <<late_bedtimes(t)>>),
               LateWakeRule(t), 4, 3,
               Evidence("Late wake time pattern detected in nights", <<late_wakes(t)>>))

InsomniaRecommendations ==
    <<"Maintain a consistent sleep schedule",
      "Create a relaxing bedtime routine",
      "Avoid screens 1-2 hours before bed",
      "Consider consulting a sleep specialist">>
RhythmRecommendations ==
    <<"Set fixed wake-up and bedtime hours",
      "Expose yourself to natural light during the day",
      "Avoid long naps, especially in the late afternoon",
      "Create a structured daily routine">>
DelayedRecommendations ==
    <<"Gradually adjust bedtime earlier by 15 minutes each week",
      "Use bright light therapy in the morning",
      "Avoid bright lights in the evening",
      "Maintain a consistent wake time, even on weekends">>

InSeq(x, s) == \E i \in DOMAIN s : s[i] = x

\* the recommendations with the last disorder's block put first
generate_recommendations_reordered(detected_disorders) ==
    (IF InSeq("Delayed Sleep Phase", detected_disorders)
     THEN DelayedRecommendations ELSE <<>>)
    \o (IF InSeq("Insomnia", detected_disorders) THEN InsomniaRecommendations ELSE <<>>)
    \o (IF InSeq("Irregular Sleep-Wake Rhythm", detected_disorders)
        THEN RhythmRecommendations ELSE <<>>)

generate_recommendations(detected_disorders) ==
    (IF InSeq("Insomnia", detected_disorders) THEN InsomniaRecommendations ELSE <<>>)
    \o (IF InSeq("Irregular Sleep-Wake Rhythm", detected_disorders)
        THEN RhythmRecommendations ELSE <<>>)
    \o (IF InSeq("Delayed Sleep Phase", detected_disorders)
        THEN DelayedRecommendations ELSE <<>>)

\* the three detector results analyze_sleep_patterns holds in its locals
detector_results(t) ==
    [insomnia_risk |-> detect_insomnia(t),
     rhythm_risk |-> detect_irregular_rhythm(t),
     delayed_risk |-> detect_delayed_sleep(t)]

\* detection with >= where the code has >
Detected_nonnegative(risk) == risk.risk_level >= 0

Detected(risk) == risk.risk_level > 0

\* analyze_sleep_patterns(df), given its three detector results
analyze_sleep_patterns(risks) ==
    LET detected ==
            (IF Detected(risks.insomnia_risk) THEN <<"Insomnia">> ELSE <<>>)
            \o (IF Detected(risks.rhythm_risk)
                THEN <<"Irregular Sleep-Wake Rhythm">> ELSE <<>>)
            \o (IF Detected(risks.delayed_risk) THEN <<"Delayed Sleep Phase">> ELSE <<>>)
        names == {detected[i] : i \in DOMAIN detected}
    IN  [detected_disorders |-> detected,
         risk_levels |->
            [n \in names |->
                IF n = "Insomnia" THEN risks.insomnia_risk
                ELSE IF n = "Irregular Sleep-Wake Rhythm" THEN risks.rhythm_risk
                ELSE risks.delayed_risk],
         recommendations |-> generate_recommendations(detected)]

(***************************************************************************)
(* utils/analyzer.py                                                       *)
(***************************************************************************)
\* Series.mean(): NaN (nobs = 0) on an empty series
Mean(xs) == [sum |-> SumSeq(xs), nobs |-> Len(xs)]

\* Series.std(): the sample variance it is the root of; NaN below two values
Std(xs) == [nan |-> StdIsNaN(xs), variance |-> IF StdIsNaN(xs) THEN <<0, 1>> ELSE StdValue(xs)]

ideal_hours == 8

\* calculate_sleep_metrics(df); efficiency is (mean / 8) * 100 as a fraction of
\* minutes over minutes
calculate_sleep_metrics(t) ==
    [avg_duration |-> Mean(Column(t, "duration")),
     efficiency |-> [sum |-> 100 * SumSeq(Column(t, "duration")),
                     nobs |-> ideal_hours * MinutesPerHour * Len(t)],
     avg_latency |-> Mean(Column(t, "latency")),
     quality_score |-> Mean(Column(t, "quality")),
     consistency |-> Std(Column(t, "duration"))]

excellent_from == 90
good_from == 80
fair_from == 70

IsExcellent(r) == r.quality >= excellent_from
\* the Good bucket without its lower boundary
IsGood_above(r) == (r.quality > good_from) /\ (r.quality < excellent_from)
IsGood(r) == (r.quality >= good_from) /\ (r.quality < excellent_from)
IsFair(r) == (r.quality >= fair_from) /\ (r.quality < good_from)
IsPoor(r) == r.quality < fair_from

\* 'Quality Distribution' of perform_statistical_analysis: nights per bucket
quality_distribution(t) ==
    [k \in {"Excellent (90-100)", "Good (80-89)", "Fair (70-79)", "Poor (<70)"} |->
        IF k = "Excellent (90-100)" THEN CountRows([i \in DOMAIN t |-> IsExcellent(t[i])])
        ELSE IF k = "Good (80-89)" THEN CountRows([i \in DOMAIN t |-> IsGood(t[i])])
        ELSE IF k = "Fair (70-79)" THEN CountRows([i \in DOMAIN t |-> IsFair(t[i])])
        ELSE CountRows([i \in DOMAIN t |-> IsPoor(t[i])])]

\* the group keys of df.groupby('day_of_week'): the day names present, sorted as
\* the strings they are
SortedDayNames == <<"Friday", "Monday", "Saturday", "Sunday", "Thursday",
                    "Tuesday", "Wednesday">>

GroupKeys(t) ==
    SelectSeq(SortedDayNames, LAMBDA d : \E i \in DOMAIN t : t[i].day_of_week = d)

\* the values of column c in the rows of one day, in table order
GroupValues(t, d, c) ==
    LET rows == SelectSeq(t, LAMBDA r : r.day_of_week = d) IN Column(rows, c)

\* a mean below another, neither NaN
MeanLess(a, b) == a.sum * b.nobs < b.sum * a.nobs
\* a standard deviation below another, neither NaN
StdLess(a, b) == a.variance[1] * b.variance[2] < b.variance[1] * a.variance[2]

\* df.groupby('day_of_week')[c].mean().idxmax(): the first key, in key order,
\* whose mean no other exceeds
idxmax_mean(t, c) ==
    LET keys == GroupKeys(t)
        val(k) == Mean(GroupValues(t, keys[k], c))
        best == CHOOSE k \in DOMAIN keys :
                    /\ \A j \in DOMAIN keys : ~MeanLess(val(k), val(j))
                    /\ \A j \in 1..(k - 1) : MeanLess(val(j), val(k))
    IN  keys[best]

\* every group's standard deviation is NaN (no day has two records)
AllGroupStdNaN(t, c) ==
    \A k \in DOMAIN GroupKeys(t) : StdIsNaN(GroupValues(t, GroupKeys(t)[k], c))

\* df.groupby('day_of_week')[c].std().idxmin(): NaN groups are skipped, the
\* first key, in key order, of the smallest deviation; "nan" when every group
\* is NaN (releases of pandas that do not raise there)
idxmin_std(t, c) ==
    LET keys == GroupKeys(t)
        val(k) == Std(GroupValues(t, keys[k], c))
        valid == {k \in DOMAIN keys : ~val(k).nan}
    IN  IF valid = {} THEN "nan"
        ELSE keys[CHOOSE k \in valid :
                    /\ \A j \in valid : ~StdLess(val(j), val(k))
                    /\ \A j \in valid : j < k => StdLess(val(k), val(j))]

\* 'Weekly Patterns' of perform_statistical_analysis
weekly_patterns(t) ==
    [best_sleep_day |-> idxmax_mean(t, "quality"),
     longest_sleep_day |-> idxmax_mean(t, "duration"),
     most_consistent_day |-> idxmin_std(t, "duration")]

\* time_std < num / den; a comparison with NaN is False
StdBelow(xs, num, den) ==
    /\ ~StdIsNaN(xs)
    /\ den * den * VarianceNum(xs) < num * num * VarianceDen(xs)

\* get_consistency_interpretation(time_std), time_std the deviation of xs
get_consistency_interpretation(xs) ==
    IF StdBelow(xs, 1, 2) THEN "Very consistent sleep schedule"
    ELSE IF StdBelow(xs, 1, 1) THEN "Moderately consistent sleep schedule"
    ELSE IF StdBelow(xs, 3, 2) THEN "Somewhat inconsistent sleep schedule"
    ELSE "Highly irregular sleep schedule"

\* perform_statistical_analysis(df), the sections modelled (the table is not
\* empty: on the empty one the function raises)
perform_statistical_analysis(t) ==
    [duration_summary |->
        [average |-> Mean(Column(t, "duration")),
         standard_deviation |-> Std(Column(t, "duration"))],
     quality_summary |->
        [average |-> Mean(Column(t, "quality")),
         variation |-> Std(Column(t, "quality"))],
     quality_distribution |-> quality_distribution(t),
     schedule_consistency |-> Std(sleep_time_hours(t)),
     weekly_patterns |-> weekly_patterns(t),
     schedule_interpretation |-> get_consistency_interpretation(sleep_time_hours(t))]

\* scipy.stats.normaltest needs 8 observations: below that, releases of scipy
\* differ (a ValueError, or a NaN p-value with a warning)
normaltest_min_samples == 8

\* Series.mode()[0] of an empty series is a KeyError
StatisticsMustRaise(t) == Len(t) = 0
\* and idxmin over standard deviations that are all NaN raises in some releases
\* of pandas
StatisticsMayRaise(t) ==
    Len(t) < normaltest_min_samples \/ AllGroupStdNaN(t, "duration")

(***************************************************************************)
(* The detector applied to feature tables: every table of up to MaxNights  *)
(* nights drawn from three kinds of night, and every table of up to        *)
(* MaxLongNights nights drawn from two of them, validated and processed.   *)
(***************************************************************************)
Row(date, sleep_start, sleep_end, quality) ==
    [date |-> date, sleep_start |-> sleep_start, sleep_end |-> sleep_end,
     quality |-> quality]

Frame(rows) == [columns |-> required_columns, rows |-> rows]

\* 23:00 -> 07:00, 8 h, quality 85
NormalNight == Row(Text(0, 0, 0), Text(0, 23, 0), Text(1, 7, 0), 85)
\* 01:00 -> 06:30, 5.5 h, quality 75
ShortNight == Row(Text(1, 0, 0), Text(2, 1, 0), Text(2, 6, 30), 75)
\* 23:30 -> 10:00, 10.5 h, quality 60
LateNight == Row(Text(2, 0, 0), Text(2, 23, 30), Text(3, 10, 0), 60)

DetectorRows == {NormalNight, ShortNight, LateNight}

Tables(rows, n) == UNION {[1..k -> rows] : k \in 0..n}

DetectorTables ==
    Tables(DetectorRows, MaxNights) \cup Tables({NormalNight, ShortNight}, MaxLongNights)

InitDetector ==
    /\ pc = "detector"
    /\ uploaded_file = None
    /\ \E rows \in DetectorTables :
          /\ df = validate_data(Frame(rows)).df
          /\ processed_df = process_sleep_data(df)
    /\ metrics = None
    /\ stats = None
    /\ detector_risks = None
    /\ disorder_analysis = None
    /\ ui = <<>>

\* detector.analyze_sleep_patterns(processed_df)
CallAnalyze ==
    /\ pc = "detector"
    /\ detector_risks' = detector_results(processed_df)
    /\ disorder_analysis' = analyze_sleep_patterns(detector_risks')
    /\ pc' = "detector_done"
    /\ UNCHANGED <<uploaded_file, df, processed_df, metrics, stats, ui>>

NextDetector == CallAnalyze

SpecDetector == InitDetector /\ [][NextDetector]_vars

InsomniaName == "Insomnia"
RhythmName == "Irregular Sleep-Wake Rhythm"
DelayedName == "Delayed Sleep Phase"
DetectionOrder == <<InsomniaName, RhythmName, DelayedName>>

AnalyzeReturned == pc = "detector_done"

AllRisks == {detector_risks.insomnia_risk, detector_risks.rhythm_risk,
             detector_risks.delayed_risk}

HasEvidence(risk, text) == \E i \in DOMAIN risk.evidence : risk.evidence[i].text = text

\* C1: every detector returns a risk_level and a confidence within [0, 1]
\* (0..10 tenths), whatever rules fired.
C1_RiskAndConfidenceInUnitInterval ==
    AnalyzeReturned =>
        \A r \in AllRisks :
            /\ r.risk_level >= 0 /\ r.risk_level <= Tenths
            /\ r.confidence >= 0 /\ r.confidence <= Tenths

\* both rules of the rhythm detector fired on a table and the detector returned
C1_Witness ==
    /\ AnalyzeReturned
    /\ Len(detector_risks.rhythm_risk.evidence) = 2
    /\ detector_risks.rhythm_risk.risk_level = 8
    /\ detector_risks.rhythm_risk.confidence = 7

RiskOf(name) ==
    IF name = InsomniaName THEN detector_risks.insomnia_risk
    ELSE IF name = RhythmName THEN detector_risks.rhythm_risk
    ELSE detector_risks.delayed_risk

\* C2: a disorder is listed in detected_disorders, and has an entry in
\* risk_levels, exactly when its detector returned risk_level > 0; the list is
\* the fixed order Insomnia, Irregular Sleep-Wake Rhythm, Delayed Sleep Phase
\* with the undetected ones left out, none twice.
C2_DetectedIffPositiveRiskInFixedOrder ==
    AnalyzeReturned =>
        LET detected == disorder_analysis.detected_disorders IN
        /\ \A k \in DOMAIN DetectionOrder :
              LET name == DetectionOrder[k] IN
              /\ InSeq(name, detected) <=> RiskOf(name).risk_level > 0
              /\ name \in DOMAIN disorder_analysis.risk_levels
                    <=> RiskOf(name).risk_level > 0
              /\ name \in DOMAIN disorder_analysis.risk_levels
                    => disorder_analysis.risk_levels[name] = RiskOf(name)
        /\ detected = SelectSeq(DetectionOrder, LAMBDA n : RiskOf(n).risk_level > 0)
        /\ \A i, j \in DOMAIN detected : detected[i] = detected[j] => i = j

\* a report that lists the first and the third disorder and leaves out the second
C2_Witness ==
    /\ AnalyzeReturned
    /\ disorder_analysis.detected_disorders = <<InsomniaName, DelayedName>>
    /\ detector_risks.rhythm_risk.risk_level = 0

RecommendationsOf(name) ==
    IF name = InsomniaName THEN InsomniaRecommendations
    ELSE IF name = RhythmName THEN RhythmRecommendations
    ELSE DelayedRecommendations

RECURSIVE ConcatRecommendations(_)
ConcatRecommendations(names) ==
    IF names = <<>> THEN <<>>
    ELSE RecommendationsOf(Head(names)) \o ConcatRecommendations(Tail(names))

\* C3: recommendations is the concatenation, in detection order, of the 4-item
\* list of each detected disorder: 4 items per detected disorder, none when
\* nothing is detected, and no item of an undetected disorder.
C3_RecommendationsConcatenateInDetectionOrder ==
    AnalyzeReturned =>
        LET detected == disorder_analysis.detected_disorders
            recs == disorder_analysis.recommendations
        IN  /\ recs = ConcatRecommendations(detected)
            /\ Len(recs) = 4 * Len(detected)
            /\ (detected = <<>> => recs = <<>>)
            /\ \A k \in DOMAIN DetectionOrder :
                  ~InSeq(DetectionOrder[k], detected) =>
                      \A i \in DOMAIN RecommendationsOf(DetectionOrder[k]) :
                          ~InSeq(RecommendationsOf(DetectionOrder[k])[i], recs)

\* a report with all three disorders detected and their twelve recommendations
C3_Witness ==
    /\ AnalyzeReturned
    /\ disorder_analysis.detected_disorders = DetectionOrder
    /\ Len(disorder_analysis.recommendations) = 12

ShortSleepText == "Short sleep duration detected in nights"
LowQualityText == "Poor sleep quality reported in nights"
SleepTimeText == "Highly variable sleep times (std hours)"
WakeTimeText == "Inconsistent wake times (std hours)"
LateBedtimeText == "Late bedtime pattern detected in nights"
LateWakeText == "Late wake time pattern detected in nights"

\* the rows of the processed table that match a condition, counted from the table
ShortNights == {i \in DOMAIN processed_df :
                   processed_df[i].duration < 6 * MinutesPerHour}
PoorNights == {i \in DOMAIN processed_df : processed_df[i].quality < 70}
LateBedNights == {i \in DOMAIN processed_df :
                     (processed_df[i].sleep_start.v[1] \div MinutesPerHour) % 24 >= 24}
LateWakeNights == {i \in DOMAIN processed_df :
                      (processed_df[i].sleep_end.v[1] \div MinutesPerHour) % 24 >= 9}

\* C6: a rule with no supporting data (no matching record, or an undefined
\* standard deviation) leaves no evidence string, and a detector none of whose
\* rules has supporting data returns risk_level 0 and confidence 0; this for
\* every table, the empty one and the single-row one included.
C6_RuleWithoutDataContributesNothing ==
    AnalyzeReturned =>
        LET ins == detector_risks.insomnia_risk
            rhy == detector_risks.rhythm_risk
            del == detector_risks.delayed_risk
            undefinedStd == Len(processed_df) < 2
        IN  /\ ShortNights = {} => ~HasEvidence(ins, ShortSleepText)
            /\ PoorNights = {} => ~HasEvidence(ins, LowQualityText)
            /\ ShortNights = {} /\ PoorNights = {}
                    => ins.risk_level = 0 /\ ins.confidence = 0
            /\ undefinedStd =>
                    rhy.evidence = <<>> /\ rhy.risk_level = 0 /\ rhy.confidence = 0
            /\ LateBedNights = {} => ~HasEvidence(del, LateBedtimeText)
            /\ LateWakeNights = {} => ~HasEvidence(del, LateWakeText)
            /\ LateBedNights = {} /\ LateWakeNights = {}
                    => del.risk_level = 0 /\ del.confidence = 0

\* C7: the late-bedtime rule never contributes: no late-bedtime evidence, and
\* the Delayed Sleep Phase risk_level is 0 or 0.4 and comes from the late-wake
\* rule alone.
C7_LateBedtimeRuleNeverFires ==
    AnalyzeReturned =>
        LET del == detector_risks.delayed_risk IN
        /\ ~HasEvidence(del, LateBedtimeText)
        /\ del.risk_level \in {0, 4}
        /\ del.risk_level = 4 <=> HasEvidence(del, LateWakeText)
        /\ del.confidence = (IF HasEvidence(del, LateWakeText) THEN 3 ELSE 0)

\* C8: the short-sleep rule fires exactly when count(duration < 6.0 h) >= 0.3 N
\* and the low-quality rule exactly when count(quality < 70) >= 0.3 N;
\* risk_level is 0.4 for the first plus 0.3 for the second and confidence 0.3 per
\* fired rule.  Ten nights with four short ones and every quality >= 70 give
\* risk_level 0.4 and confidence 0.3, Insomnia detected.
C8_InsomniaRulesFireAtThirtyPercent ==
    AnalyzeReturned =>
        LET ins == detector_risks.insomnia_risk
            N == Len(processed_df)
            short == 10 * Cardinality(ShortNights) >= 3 * N
            poor == 10 * Cardinality(PoorNights) >= 3 * N
        IN  /\ HasEvidence(ins, ShortSleepText) <=> short
            /\ HasEvidence(ins, LowQualityText) <=> poor
            /\ ins.risk_level = (IF short THEN 4 ELSE 0) + (IF poor THEN 3 ELSE 0)
            /\ ins.confidence = (IF short THEN 3 ELSE 0) + (IF poor THEN 3 ELSE 0)
            /\ Len(ins.evidence) = (IF short THEN 1 ELSE 0) + (IF poor THEN 1 ELSE 0)
            /\ (N = 10 /\ Cardinality(ShortNights) = 4 /\ PoorNights = {}) =>
                    /\ ins.risk_level = 4
                    /\ ins.confidence = 3
                    /\ InSeq(InsomniaName, disorder_analysis.detected_disorders)

\* the scenario: ten nights, four of them short, no poor quality, analysed
C8_Witness ==
    /\ AnalyzeReturned
    /\ Len(processed_df) = 10
    /\ Cardinality(ShortNights) = 4
    /\ PoorNights = {}
    /\ detector_risks.insomnia_risk.risk_level = 4
    /\ disorder_analysis.risk_levels[InsomniaName].confidence = 3

(***************************************************************************)
(* The processor and the statistics applied to validated tables: every     *)
(* table of up to MaxRecords rows drawn from six kinds of row, every       *)
(* table of up to MaxLongRecords rows drawn from two of them, and every    *)
(* single-row table with a quality of 0..100.                              *)
(***************************************************************************)
\* the two rows of sample_data
SampleRow1 == Row(Text(0, 0, 0), Text(0, 23, 0), Text(1, 7, 0), 85)
SampleRow2 == Row(Text(1, 0, 0), Text(1, 23, 30), Text(2, 7, 30), 78)
\* sleep_end before sleep_start (the day rollover is missing), quality 70
ReversedRow == Row(Text(2, 0, 0), Text(2, 23, 0), Text(2, 7, 0), 70)
\* a Monday like SampleRow2, 22:00 -> 04:00, quality 90
EarlyRow == Row(Text(8, 0, 0), Text(8, 22, 0), Text(9, 4, 0), 90)
\* 00:30 -> 06:00, quality 60
PoorRow == Row(Text(3, 0, 0), Text(4, 0, 30), Text(4, 6, 0), 60)

\* a Friday with the times of day and the quality of SampleRow2
FridayRow == Row(Text(5, 0, 0), Text(5, 23, 30), Text(6, 7, 30), 78)

AnalysisRows == {SampleRow1, SampleRow2, ReversedRow, EarlyRow, PoorRow, FridayRow}

QualityRow(q) == Row(Text(0, 0, 0), Text(0, 23, 0), Text(1, 7, 0), q)

AnalysisTables ==
    Tables(AnalysisRows, MaxRecords)
    \cup Tables({SampleRow1, EarlyRow}, MaxLongRecords)
    \cup {<<QualityRow(q)>> : q \in QualityMin..QualityMax}

InitAnalysis ==
    /\ pc = "processor"
    /\ uploaded_file = None
    /\ \E rows \in AnalysisTables :
          /\ ~validate_data(Frame(rows)).raised
          /\ df = validate_data(Frame(rows)).df
    /\ processed_df = None
    /\ metrics = None
    /\ stats = None
    /\ detector_risks = None
    /\ disorder_analysis = None
    /\ ui = <<>>

\* process_sleep_data working on its argument instead of a copy of it
CallProcess_in_place ==
    /\ pc = "processor"
    /\ processed_df' = process_sleep_data(df)
    /\ df' = [columns |-> df.columns \cup {"duration", "latency", "day_of_week",
                                            "rolling_avg_duration",
                                            "rolling_avg_quality"},
              rows |-> processed_df']
    /\ pc' = "processed"
    /\ UNCHANGED <<uploaded_file, metrics, stats, detector_risks,
                   disorder_analysis, ui>>

\* processed_df = process_sleep_data(df)
CallProcess ==
    /\ pc = "processor"
    /\ processed_df' = process_sleep_data(df)
    /\ pc' = "processed"
    /\ UNCHANGED <<uploaded_file, df, metrics, stats, detector_risks,
                   disorder_analysis, ui>>

\* process_sleep_data(df) called a second time on the same input
CallProcessAgain ==
    /\ pc = "processed"
    /\ processed_df' = process_sleep_data(df)
    /\ pc' = "reprocessed"
    /\ UNCHANGED <<uploaded_file, df, metrics, stats, detector_risks,
                   disorder_analysis, ui>>

\* metrics = calculate_sleep_metrics(processed_df)
CallMetrics ==
    /\ pc = "processed"
    /\ metrics' = calculate_sleep_metrics(processed_df)
    /\ pc' = "summarized"
    /\ UNCHANGED <<uploaded_file, df, processed_df, stats, detector_risks,
                   disorder_analysis, ui>>

\* stats = perform_statistical_analysis(processed_df), returning
CallStatistics ==
    /\ pc = "summarized"
    /\ ~StatisticsMustRaise(processed_df)
    /\ stats' = perform_statistical_analysis(processed_df)
    /\ pc' = "analyzed"
    /\ UNCHANGED <<uploaded_file, df, processed_df, metrics, detector_risks,
                   disorder_analysis, ui>>

\* perform_statistical_analysis(processed_df), raising
CallStatisticsRaises ==
    /\ pc = "summarized"
    /\ StatisticsMustRaise(processed_df) \/ StatisticsMayRaise(processed_df)
    /\ pc' = "analysis_raised"
    /\ UNCHANGED <<uploaded_file, df, processed_df, metrics, stats, detector_risks,
                   disorder_analysis, ui>>

NextAnalysis ==
    \/ CallProcess
    \/ CallProcessAgain
    \/ CallMetrics
    \/ CallStatistics
    \/ CallStatisticsRaises

SpecAnalysis == InitAnalysis /\ [][NextAnalysis]_vars

Processed ==
    pc \in {"processed", "reprocessed", "summarized", "analyzed", "analysis_raised"}
Analyzed == pc = "analyzed"

\* the records whose quality is in [lo, hi)
QualitiesIn(lo, hi) ==
    Cardinality({i \in DOMAIN processed_df :
                    processed_df[i].quality >= lo /\ processed_df[i].quality < hi})

\* C9: the Quality Distribution puts every record in exactly one of Excellent
\* [90,100], Good [80,90), Fair [70,80), Poor [0,70): each count is the number
\* of records in its range, the four sum to the row count, and when every
\* quality is exactly 70 Fair is the row count and the other three are 0.
C9_QualityBucketsPartitionTheRows ==
    Analyzed =>
        LET dist == stats.quality_distribution
            N == Len(processed_df)
        IN  /\ dist["Excellent (90-100)"] = QualitiesIn(90, 101)
            /\ dist["Good (80-89)"] = QualitiesIn(80, 90)
            /\ dist["Fair (70-79)"] = QualitiesIn(70, 80)
            /\ dist["Poor (<70)"] = QualitiesIn(0, 70)
            /\ dist["Excellent (90-100)"] + dist["Good (80-89)"]
                 + dist["Fair (70-79)"] + dist["Poor (<70)"] = N
            /\ (\A i \in DOMAIN processed_df : processed_df[i].quality = 70) =>
                    /\ dist["Fair (70-79)"] = N
                    /\ dist["Excellent (90-100)"] = 0
                    /\ dist["Good (80-89)"] = 0
                    /\ dist["Poor (<70)"] = 0

\* three records, all of quality 70, analysed
C9_Witness ==
    /\ Analyzed
    /\ Len(processed_df) = 3
    /\ \A i \in DOMAIN processed_df : processed_df[i].quality = 70
    /\ stats.quality_distribution["Fair (70-79)"] = 3

RECURSIVE SumRange(_, _, _)
SumRange(xs, lo, hi) == IF lo > hi THEN 0 ELSE xs[lo] + SumRange(xs, lo + 1, hi)

\* C10: at every row i, rolling_avg_duration is the mean of duration over the
\* rows max(first, i-6)..i in table order, and rolling_avg_quality that of
\* quality: at most 7 records, no later row, and at the first row that one
\* record alone.
C10_RollingAverageIsTrailingWindowMean ==
    Processed =>
        \A i \in DOMAIN processed_df :
            LET lo == IF i - 6 > 1 THEN i - 6 ELSE 1
                rd == processed_df[i].rolling_avg_duration
                rq == processed_df[i].rolling_avg_quality
            IN  /\ rd.nobs = i - lo + 1
                /\ rq.nobs = i - lo + 1
                /\ rd.nobs <= 7
                /\ rd.sum = SumRange(Column(processed_df, "duration"), lo, i)
                /\ rq.sum = SumRange(Column(processed_df, "quality"), lo, i)
                /\ (i = 1 => rd = [sum |-> processed_df[1].duration, nobs |-> 1])
                /\ (i = 1 => rq = [sum |-> processed_df[1].quality, nobs |-> 1])

\* an eight-row table whose eighth window has dropped a first row of another
\* duration
C10_Witness ==
    /\ Processed
    /\ Len(processed_df) = 8
    /\ processed_df[1].duration # processed_df[8].duration
    /\ processed_df[8].rolling_avg_duration.nobs = 7
    /\ processed_df[8].rolling_avg_duration.sum
          = SumSeq(Column(processed_df, "duration")) - processed_df[1].duration

(***************************************************************************)
(* main(): one run of the upload handler, from st.file_uploader on.  ui is *)
(* the sequence of streamlit calls that rendered something.                *)
(***************************************************************************)
\* quality above 100
OutOfRangeRow == Row(Text(0, 0, 0), Text(0, 23, 0), Text(1, 7, 0), 101)
\* a sleep_start that is no timestamp
UnparsableRow == Row(Text(0, 0, 0), Garbage, Text(1, 7, 0), 85)

UploadRows == {SampleRow1, SampleRow2, LateNight, OutOfRangeRow, UnparsableRow}

DropColumn(row, c) == [k \in (DOMAIN row) \ {c} |-> row[k]]

\* the CSV files a user may upload: all four columns, or no quality column
Files ==
    {[columns |-> required_columns, rows |-> rows] :
        rows \in Tables(UploadRows, MaxUploadRows)}
    \cup {[columns |-> required_columns \ {"quality"},
           rows |-> [i \in DOMAIN rows |-> DropColumn(rows[i], "quality")]] :
            rows \in Tables({SampleRow1, SampleRow2}, MaxUploadRows)}

\* pd.read_csv: text columns stay text
read_csv(file) == [columns |-> file.columns, rows |-> file.rows]

Call(name, arg) == [call |-> name, arg |-> arg]

Init ==
    /\ pc = "upload"
    /\ uploaded_file = None
    /\ df = None
    /\ processed_df = None
    /\ metrics = None
    /\ stats = None
    /\ detector_risks = None
    /\ disorder_analysis = None
    /\ ui = <<>>

\* uploaded_file is None
NoFile ==
    /\ pc = "upload"
    /\ ui' = Append(ui, Call("st.info", "Please upload a CSV file to begin analysis"))
    /\ pc' = "done"
    /\ UNCHANGED <<uploaded_file, df, processed_df, metrics, stats, detector_risks,
                   disorder_analysis>>

\* df = pd.read_csv(uploaded_file)
ReadCsv ==
    /\ pc = "upload"
    /\ \E file \in Files :
          /\ uploaded_file' = file
          /\ df' = read_csv(file)
    /\ pc' = "read"
    /\ UNCHANGED <<processed_df, metrics, stats, detector_risks, disorder_analysis, ui>>

\* except Exception as e: st.error(...)
ShowError(e) == Append(ui, Call("st.error", e))

\* if validate_data(df): ..., or the except clause when it raises
ValidateData ==
    /\ pc = "read"
    /\ LET r == validate_data(df) IN
          /\ df' = r.df
          /\ IF r.raised
             THEN ui' = ShowError(r.error) /\ pc' = "done"
             ELSE ui' = ui /\ pc' = "validated"
    /\ UNCHANGED <<uploaded_file, processed_df, metrics, stats, detector_risks,
                   disorder_analysis>>

\* processed_df = process_sleep_data(df)
ProcessData ==
    /\ pc = "validated"
    /\ processed_df' = process_sleep_data(df)
    /\ pc' = "processed"
    /\ UNCHANGED <<uploaded_file, df, metrics, stats, detector_risks,
                   disorder_analysis, ui>>

\* metrics = calculate_sleep_metrics(processed_df) and the three st.metric
ShowMetrics ==
    /\ pc = "processed"
    /\ metrics' = calculate_sleep_metrics(processed_df)
    /\ ui' = ui \o <<Call("st.metric", "Average Sleep Duration"),
                     Call("st.metric", "Sleep Efficiency"),
                     Call("st.metric", "Average Time to Sleep")>>
    /\ pc' = "metrics"
    /\ UNCHANGED <<uploaded_file, df, processed_df, stats, detector_risks,
                   disorder_analysis>>

\* the three visualizations
ShowCharts ==
    /\ pc = "metrics"
    /\ ui' = ui \o <<Call("st.plotly_chart", "duration_trend"),
                     Call("st.plotly_chart", "weekly_pattern"),
                     Call("st.plotly_chart", "quality_heatmap")>>
    /\ pc' = "charts"
    /\ UNCHANGED <<uploaded_file, df, processed_df, metrics, stats, detector_risks,
                   disorder_analysis>>

\* st.header and stats = perform_statistical_analysis(processed_df), or the
\* except clause when it raises
Statistics ==
    /\ pc = "charts"
    /\ \E raises \in BOOLEAN :
          /\ raises => StatisticsMustRaise(processed_df) \/ StatisticsMayRaise(processed_df)
          /\ ~raises => ~StatisticsMustRaise(processed_df)
          /\ IF raises
             THEN /\ ui' = Append(ui, Call("st.header", "Statistical Analysis"))
                             \o <<Call("st.error", "statistics")>>
                  /\ stats' = stats
                  /\ pc' = "done"
             ELSE /\ ui' = Append(ui, Call("st.header", "Statistical Analysis"))
                  /\ stats' = perform_statistical_analysis(processed_df)
                  /\ pc' = "statistics"
    /\ UNCHANGED <<uploaded_file, df, processed_df, metrics, detector_risks,
                   disorder_analysis>>

\* the charts and tables of the statistical analysis
ShowStatistics ==
    /\ pc = "statistics"
    /\ ui' = ui \o <<Call("st.plotly_chart", "quality_distribution"),
                     Call("st.plotly_chart", "gauge_chart"),
                     Call("st.json", "Distribution Analysis"),
                     Call("st.plotly_chart", "weekly_patterns_1"),
                     Call("st.plotly_chart", "weekly_patterns_2"),
                     Call("st.plotly_chart", "bullet_chart"),
                     Call("st.json", "Quality Statistics"),
                     Call("st.json", "Quality Distribution"),
                     Call("st.json", "Timing Analysis"),
                     Call("st.json", "Weekly Patterns"),
                     Call("st.info", "Interpretations")>>
    /\ pc' = "rendered"
    /\ UNCHANGED <<uploaded_file, df, processed_df, metrics, stats, detector_risks,
                   disorder_analysis>>

\* disorder_analysis = detector.analyze_sleep_patterns(processed_df)
DetectDisorders ==
    /\ pc = "rendered"
    /\ detector_risks' = detector_results(processed_df)
    /\ disorder_analysis' = analyze_sleep_patterns(detector_risks')
    /\ ui' = Append(ui, Call("st.header", "Sleep Disorder Analysis"))
    /\ pc' = "detected"
    /\ UNCHANGED <<uploaded_file, df, processed_df, metrics, stats>>

\* the two metrics of each detected disorder
DisorderCalls(detected) ==
    [i \in 1..(2 * Len(detected)) |->
        Call("st.metric", IF i % 2 = 1 THEN "Risk Level" ELSE "Confidence Score")]

RecommendationCalls(recs) == [i \in DOMAIN recs |-> Call("st.info", recs[i])]

\* the disorder report, then the export button
ShowDisorders ==
    /\ pc = "detected"
    /\ LET detected == disorder_analysis.detected_disorders IN
          ui' = ui
                \o (IF detected # <<>>
                    THEN <<Call("st.warning", "Potential sleep disorders detected")>>
                         \o DisorderCalls(detected)
                         \o RecommendationCalls(disorder_analysis.recommendations)
                    ELSE <<Call("st.success", "No significant sleep disorders detected")>>)
                \o <<Call("st.download_button", "Download Processed Data")>>
    /\ pc' = "done"
    /\ UNCHANGED <<uploaded_file, df, processed_df, metrics, stats, detector_risks,
                   disorder_analysis>>

Next ==
    \/ NoFile
    \/ ReadCsv
    \/ ValidateData
    \/ ProcessData
    \/ ShowMetrics
    \/ ShowCharts
    \/ Statistics
    \/ ShowStatistics
    \/ DetectDisorders
    \/ ShowDisorders

Spec == Init /\ [][Next]_vars

\* C4: validate_data leaves the rows it is given as they were, values and types
\* of date, sleep_start and sleep_end included, whether it returns or raises.
C4_ValidateDoesNotMutate == [][pc = "read" => df' = df]_vars

\* what makes a file invalid, read off the file: a missing column, a timestamp
\* that does not parse, or a quality outside [0, 100]
FileInvalid(file) ==
    \/ \E c \in {"date", "sleep_start", "sleep_end", "quality"} : c \notin file.columns
    \/ \E i \in DOMAIN file.rows :
          \/ \E c \in {"date", "sleep_start", "sleep_end"} : Len(file.rows[i][c].v) # 3
          \/ file.rows[i].quality < 0
          \/ file.rows[i].quality > 100

Rendered(name) == {i \in DOMAIN ui : ui[i].call = name}

\* C5: once validation of an upload has failed the analysis is over: process,
\* metrics, statistics and the detector have not run, no chart and no metric is
\* rendered, and exactly one error message is shown.
C5_FailedValidationAbortsTheAnalysis ==
    (pc \notin {"upload", "read"} /\ uploaded_file # None /\ FileInvalid(uploaded_file)) =>
        /\ pc = "done"
        /\ processed_df = None
        /\ metrics = None
        /\ stats = None
        /\ detector_risks = None
        /\ disorder_analysis = None
        /\ Rendered("st.plotly_chart") = {}
        /\ Rendered("st.metric") = {}
        /\ Cardinality(Rendered("st.error")) = 1
        /\ Len(ui) = 1

\* an upload whose second row has a quality of 101, rejected with the one message
C5_Witness ==
    /\ pc = "done"
    /\ uploaded_file # None
    /\ uploaded_file.columns = required_columns
    /\ Len(uploaded_file.rows) = 2
    /\ uploaded_file.rows[2].quality = 101
    /\ ui = <<Call("st.error", "Sleep quality scores must be between 0 and 100")>>

CanonicalDays == <<"Monday", "Tuesday", "Wednesday", "Thursday", "Friday",
                   "Saturday", "Sunday">>

DaysPresent == {processed_df[i].day_of_week : i \in DOMAIN processed_df}

DaySum(d, c) ==
    SumSeq(Column(SelectSeq(processed_df, LAMBDA r : r.day_of_week = d), c))
DayCount(d) == Cardinality({i \in DOMAIN processed_df : processed_df[i].day_of_week = d})

\* the days whose mean of column c no other day exceeds
DaysOfHighestMean(c) ==
    {d \in DaysPresent :
        \A e \in DaysPresent : DaySum(e, c) * DayCount(d) <= DaySum(d, c) * DayCount(e)}

DayDurations(d) ==
    Column(SelectSeq(processed_df, LAMBDA r : r.day_of_week = d), "duration")

\* the days of two records or more whose duration deviation no such day undercuts
DaysOfLowestDeviation ==
    LET defined == {d \in DaysPresent : DayCount(d) >= 2} IN
    {d \in defined :
        \A e \in defined :
            VarianceNum(DayDurations(d)) * VarianceDen(DayDurations(e))
                <= VarianceNum(DayDurations(e)) * VarianceDen(DayDurations(d))}

\* the first day of a set in the order Monday .. Sunday
FirstCanonical(days) ==
    CanonicalDays[CHOOSE k \in DOMAIN CanonicalDays :
                    /\ CanonicalDays[k] \in days
                    /\ \A j \in 1..(k - 1) : CanonicalDays[j] \notin days]

\* C11: Best Sleep Day and Longest Sleep Day are, among the days tied for the
\* highest mean quality (duration), the one that comes first in the order
\* Monday, Tuesday, ..., Sunday.
C11_WeeklyTiesGoToFirstCanonicalDay ==
    Analyzed =>
        /\ stats.weekly_patterns.best_sleep_day
              = FirstCanonical(DaysOfHighestMean("quality"))
        /\ stats.weekly_patterns.longest_sleep_day
              = FirstCanonical(DaysOfHighestMean("duration"))
        /\ DaysOfLowestDeviation # {} =>
              stats.weekly_patterns.most_consistent_day
                = FirstCanonical(DaysOfLowestDeviation)

C13_DurationIsEndMinusStart ==
    Processed =>
        /\ ~validate_data(df).raised
        /\ \A i \in DOMAIN processed_df :
              /\ processed_df[i].duration
                    = df.rows[i].sleep_end.v[1] - df.rows[i].sleep_start.v[1]
              /\ df.rows[i].sleep_end.v[1] < df.rows[i].sleep_start.v[1]
                    => processed_df[i].duration < 0
        /\ df = validate_data(Frame(<<SampleRow1, SampleRow2>>)).df
              => Column(processed_df, "duration") = <<8 * 60, 8 * 60>>

\* a processed table whose second row ends 16 hours before it starts
C13_Witness ==
    /\ Processed
    /\ Len(processed_df) = 2
    /\ df.rows[2] = validate_data(Frame(<<ReversedRow>>)).df.rows[1]
    /\ processed_df[2].duration = 0 - 16 * 60
    /\ processed_df[1].duration = 8 * 60

\* the four strings get_consistency_interpretation returns for a defined deviation
OrdinaryInterpretations ==
    {"Very consistent sleep schedule", "Moderately consistent sleep schedule",
     "Somewhat inconsistent sleep schedule", "Highly irregular sleep schedule"}

\* every stdev-dependent statistic of the single-row table is the NaN sentinel
AllStdStatisticsAreSentinels ==
    /\ pc = "analyzed"
    /\ metrics.consistency.nan
    /\ stats.duration_summary.standard_deviation.nan
    /\ stats.quality_summary.variation.nan
    /\ stats.schedule_consistency.nan
    /\ stats.weekly_patterns.most_consistent_day = "nan"
    /\ stats.schedule_interpretation \notin OrdinaryInterpretations

\* every stdev-dependent statistic of the single-row table signalled an error:
\* neither function returned a value
AllStdStatisticsAreErrors ==
    /\ pc = "analysis_raised"
    /\ metrics = None
    /\ stats = None

\* C14: on a single-row table the stdev-dependent statistics of
\* calculate_sleep_metrics and perform_statistical_analysis follow one policy:
\* all of them the same sentinel, or all of them an error.
C14_SingleRowStdPolicyIsUniform ==
    (pc \in {"analyzed", "analysis_raised"} /\ Len(processed_df) = 1) =>
        AllStdStatisticsAreSentinels \/ AllStdStatisticsAreErrors

\* the number of rules among two that fired
RulesFired(r1, r2) == (IF r1 THEN 1 ELSE 0) + (IF r2 THEN 1 ELSE 0)

RulesFiredFor(name) ==
    IF name = InsomniaName
    THEN RulesFired(ShortSleepRule(processed_df), LowQualityRule(processed_df))
    ELSE IF name = RhythmName
    THEN RulesFired(SleepTimeRule(processed_df), WakeTimeRule(processed_df))
    ELSE RulesFired(LateBedtimeRule(processed_df), LateWakeRule(processed_df))

\* C15: in each of the three detector results a positive risk_level, a positive
\* confidence and a non-empty evidence list go together, and the evidence list
\* has one string per rule that fired (0, 1 or 2); so every disorder in
\* detected_disorders has at least one evidence string and a positive confidence.
C15_RiskConfidenceAndEvidenceGoTogether ==
    AnalyzeReturned =>
        /\ \A k \in DOMAIN DetectionOrder :
              LET r == RiskOf(DetectionOrder[k]) IN
              /\ (r.risk_level > 0) <=> (r.confidence > 0)
              /\ (r.risk_level > 0) <=> (r.evidence # <<>>)
              /\ Len(r.evidence) = RulesFiredFor(DetectionOrder[k])
              /\ Len(r.evidence) \in 0..2
        /\ \A i \in DOMAIN disorder_analysis.detected_disorders :
              LET r == disorder_analysis.risk_levels[disorder_analysis.detected_disorders[i]]
              IN  /\ Len(r.evidence) >= 1
                  /\ r.confidence > 0

\* one detector fired no rule, one fired one and one fired both
C15_Witness ==
    /\ AnalyzeReturned
    /\ Len(processed_df) > 0
    /\ {Len(RiskOf(DetectionOrder[k]).evidence) : k \in DOMAIN DetectionOrder} = {0, 1, 2}
    /\ \E i \in DOMAIN disorder_analysis.detected_disorders :
          Len(disorder_analysis.risk_levels[disorder_analysis.detected_disorders[i]].evidence) = 2

====
